---- MODULE Spec2Model ----
(***************************************************************************)
(* dependency-suggest: a one-shot command that looks up the versions of a  *)
(* Maven component, picks the first one with the same major version as the *)
(* current one, downloads its jar into the working directory (unless a     *)
(* file of that name is already there) and runs Dependency-check on it.    *)
(*                                                                         *)
(* Strings that the program inspects (version strings, file names) are     *)
(* sequences of one-character strings, so that contains/split/format are   *)
(* computed.  An optional value is a sequence of length 0 or 1.            *)
(***************************************************************************)
EXTENDS Integers, Sequences, FiniteSets, TLC

VARIABLES proc, registry, fs, transfers, writes, first, runs

vars == <<proc, registry, fs, transfers, writes, first, runs>>

(* ------------------------------ bounds --------------------------------- *)

\* Longest list of versions the registry serves (the program asks for one
\* page of rows=20; the model keeps the page short).
MaxVersions == 2

\* Number of invocations, one after the other, in one working directory.
MaxRuns == 2

\* The invocations (operating-system processes) that may exist at once.
Procs == {"A", "B"}

\* Version strings the command line and the registry draw from:
\* "1.0", "1.0.1", "01.0", "2.0" and the undotted "1" and "2".
VersionStrings ==
    { <<"1", ".", "0">>, <<"1", ".", "0", ".", "1">>, <<"0", "1", ".", "0">>,
      <<"2", ".", "0">>, <<"1">>, <<"2">> }

RECURSIVE SeqsUpTo(_, _)
SeqsUpTo(S, n) ==
    IF n = 0 THEN { <<>> }
    ELSE LET shorter == SeqsUpTo(S, n - 1)
         IN  shorter \cup { Append(s, x) : s \in shorter, x \in S }

VersionLists == SeqsUpTo(VersionStrings, MaxVersions)

\* The coordinate on the command line (args[1], args[2]): "g.h" and "a".
GroupId == <<"g", ".", "h">>
ArtifactId == <<"a">>

\* Number of elements of std::env::args() the program accepts.
Argc == 4

\* HTTP status codes the two servers answer with.
HttpStatuses == {200, 404}

\* Exit statuses of the Dependency-check process and what it writes to stderr.
ExitStatuses == {0, 1}
StderrTexts == {"", "CVE found"}

\* Values of DEPENDENCY_CHECK_SCRIPT: unset (the default ./dependency-check.sh,
\* as path components) and "/" (which has no parent directory).
DefaultScript == <<".", "dependency-check.sh">>
ScriptPaths == { DefaultScript, <<"/">> }

Cwd == <<"/", "w">>

None == <<>>
Some(x) == <<x>>

(* --------------------------- pure functions ---------------------------- *)

Contains(s, c) == \E i \in 1..Len(s) : s[i] = c

\* str::split(c): the pieces between occurrences of c, left to right.
RECURSIVE SplitFrom(_, _, _, _)
SplitFrom(s, c, i, piece) ==
    IF i > Len(s) THEN <<piece>>
    ELSE IF s[i] = c THEN <<piece>> \o SplitFrom(s, c, i + 1, <<>>)
    ELSE SplitFrom(s, c, i + 1, Append(piece, s[i]))

Split(s, c) == SplitFrom(s, c, 1, <<>>)

\* str::replace(from, to) for one-character patterns.
Replace(s, from, to) == [i \in 1..Len(s) |-> IF s[i] = from THEN to ELSE s[i]]

StatusIsSuccess(status) == status \in 200..299

Ok(v) == [ok |-> TRUE, val |-> Some(v), err |-> None]
Err(e) == [ok |-> FALSE, val |-> None, err |-> Some(e)]

get_major_version(version) ==
    IF Contains(version, ".")
    THEN Ok(Split(version, ".")[1])
    ELSE Err(version)

\* Variant: leading zeros of a major version are ignored, as a numeric
\* comparison of major versions would.
RECURSIVE StripZeros(_)
StripZeros(s) ==
    IF Len(s) > 1 /\ s[1] = "0" THEN StripZeros(Tail(s)) ELSE s

RECURSIVE NumericFilterFrom(_, _, _, _)
NumericFilterFrom(major_version, versions, i, kept) ==
    IF i > Len(versions) THEN [panic |-> None, val |-> kept]
    ELSE LET r == get_major_version(versions[i])
         IN  IF ~r.ok THEN [panic |-> r.err, val |-> <<>>]
             ELSE NumericFilterFrom(major_version, versions, i + 1,
                             IF StripZeros(r.val[1]) = StripZeros(major_version)
                             THEN Append(kept, versions[i]) ELSE kept)

extract_comparing_numbers(major_version, versions) ==
    NumericFilterFrom(major_version, versions, 1, <<>>)

\* Variant: an element without a '.' is left out instead of unwrapped.
RECURSIVE LenientFilterFrom(_, _, _, _)
LenientFilterFrom(major_version, versions, i, kept) ==
    IF i > Len(versions) THEN [panic |-> None, val |-> kept]
    ELSE LET r == get_major_version(versions[i])
         IN  LenientFilterFrom(major_version, versions, i + 1,
                             IF r.ok /\ r.val[1] = major_version
                             THEN Append(kept, versions[i]) ELSE kept)

extract_skipping_malformed(major_version, versions) ==
    LenientFilterFrom(major_version, versions, 1, <<>>)

\* The filter closure unwraps get_major_version on every element in order:
\* the first element without a '.' panics; otherwise the matching elements
\* are kept in order.
RECURSIVE FilterFrom(_, _, _, _)
FilterFrom(major_version, versions, i, kept) ==
    IF i > Len(versions) THEN [panic |-> None, val |-> kept]
    ELSE LET r == get_major_version(versions[i])
         IN  IF ~r.ok THEN [panic |-> r.err, val |-> <<>>]
             ELSE FilterFrom(major_version, versions, i + 1,
                             IF r.val[1] = major_version
                             THEN Append(kept, versions[i]) ELSE kept)

extract_versions_with_same_major_version(major_version, versions) ==
    FilterFrom(major_version, versions, 1, <<>>)

FileName(artifact_id, version) ==
    artifact_id \o <<"-">> \o version \o <<".", "j", "a", "r">>

Url(group_id, artifact_id, version) ==
    <<"https://repo1.maven.org/maven2">> \o <<"/">> \o Replace(group_id, ".", "/")
      \o <<"/">> \o artifact_id \o <<"/">> \o version \o <<"/">>
      \o FileName(artifact_id, version)

FullPath(file_name) == Cwd \o <<"/">> \o file_name

\* Path::parent of a path given as its components.
Parent(path) ==
    IF path = <<>> \/ path = <<"/">> THEN None
    ELSE Some(SubSeq(path, 1, Len(path) - 1))

Files == { FileName(ArtifactId, v) : v \in VersionStrings }

(* ------------------------------- state --------------------------------- *)

\* What the process prints and how it ends: result "Ok" is exit status zero,
\* "Err" is main returning Err(message) and "Panic" an abort, both non-zero.
Outcome(result, kind, cause, subject, status, text) ==
    [result |-> result, kind |-> kind, cause |-> cause, subject |-> subject,
     status |-> status, text |-> text]

Running == Outcome("Running", "", "", None, None, "")

\* A process that does not exist (yet): the locals of main, all unset.
Idle ==
    [pc |-> "idle", version |-> None, versions |-> None, major_version |-> None,
     matching_versions |-> None, latest_version |-> None, response |-> None,
     url |-> None, jar_file_name |-> None, seen |-> None, cache |-> "",
     gets |-> 0, creates |-> 0,
     scan |-> None, outcome |-> Running]

Finish(p, outcome) ==
    [proc EXCEPT ![p].pc = "done", ![p].outcome = outcome]

\* Bookkeeping of a download_jar call that returns: how the first call for
\* each file name ended, and the path it returned, are remembered.
Returned(f, result, path) ==
    IF first[f] = None
    THEN [first EXCEPT ![f] = Some([result |-> result, path |-> path])]
    ELSE first

Init ==
    /\ proc = [p \in Procs |-> Idle]
    /\ registry \in VersionLists
    /\ fs = [f \in Files |-> "absent"]
    /\ transfers = [f \in Files |-> 0]
    /\ writes = [f \in Files |-> 0]
    /\ first = [f \in Files |-> None]
    /\ runs = 0

(* ------------------------------- main ---------------------------------- *)

\* main, lines 146-154: the arity check and the three arguments.
Enter(p, argc, version) ==
    /\ runs' = runs + 1
    /\ proc' = [proc EXCEPT ![p] =
                  IF argc # Argc
                  THEN [Idle EXCEPT !.pc = "done",
                          !.outcome = Outcome("Err", "Usage", "", None, None, "")]
                  ELSE [Idle EXCEPT !.pc = "query", !.version = Some(version)]]
    /\ UNCHANGED <<registry, fs, transfers, writes, first>>

\* Invocations one after the other: a new one starts when none is running.
Start(p) ==
    /\ runs < MaxRuns
    /\ proc[p].pc \in {"idle", "done"}
    /\ \A q \in Procs \ {p} : proc[q].pc = "idle"
    /\ \E argc \in {Argc - 1, Argc}, version \in VersionStrings :
          Enter(p, argc, version)

\* Invocations side by side: each process is started once, at any time.
StartConcurrent(p) ==
    /\ proc[p].pc = "idle"
    /\ \E argc \in {Argc - 1, Argc}, version \in VersionStrings :
          Enter(p, argc, version)

\* query_maven_central: the reply is a transport failure, or a status with a
\* body that is the registry's documents or not JSON of the expected shape.
query_maven_central(transport_ok, status, wellformed) ==
    IF ~transport_ok THEN [ok |-> FALSE, val |-> None, cause |-> "transport", status |-> None]
    ELSE IF ~StatusIsSuccess(status)
         THEN [ok |-> FALSE, val |-> None, cause |-> "ApiError", status |-> Some(status)]
    ELSE IF ~wellformed
         THEN [ok |-> FALSE, val |-> None, cause |-> "json", status |-> None]
    ELSE [ok |-> TRUE, val |-> Some(registry), cause |-> "", status |-> None]

\* main, lines 156-157.
Query(p) ==
    /\ proc[p].pc = "query"
    /\ \E transport_ok \in BOOLEAN, status \in HttpStatuses, wellformed \in BOOLEAN :
          LET r == query_maven_central(transport_ok, status, wellformed)
          IN  proc' = IF r.ok
                      THEN [proc EXCEPT ![p].pc = "parse", ![p].versions = r.val]
                      ELSE Finish(p, Outcome("Err", "QueryFailed", r.cause, None,
                                             r.status, ""))
    /\ UNCHANGED <<registry, fs, transfers, writes, first, runs>>

\* main, line 159.
ParseCurrent(p) ==
    /\ proc[p].pc = "parse"
    /\ LET r == get_major_version(proc[p].version[1])
       IN  proc' = IF r.ok
                   THEN [proc EXCEPT ![p].pc = "filter", ![p].major_version = r.val]
                   ELSE Finish(p, Outcome("Err", "NotSemver", "", r.err, None, ""))
    /\ UNCHANGED <<registry, fs, transfers, writes, first, runs>>

\* main, line 161.
Filter(p) ==
    /\ proc[p].pc = "filter"
    /\ LET r == extract_versions_with_same_major_version(
                    proc[p].major_version[1], proc[p].versions[1])
       IN  proc' = IF r.panic # None
                   THEN Finish(p, Outcome("Panic", "UnwrapNotSemver", "", r.panic,
                                          None, ""))
                   ELSE [proc EXCEPT ![p].pc = "select",
                                     ![p].matching_versions = Some(r.val)]
    /\ UNCHANGED <<registry, fs, transfers, writes, first, runs>>

\* Variant: the first matching version is taken without comparing it with the
\* current one.
select_without_compare(version, matching_versions) ==
    IF Len(matching_versions) = 0
    THEN [latest |-> None, outcome |-> Outcome("Panic", "IndexOutOfBounds", "", None, None, "")]
    ELSE [latest |-> Some(matching_versions[1]), outcome |-> Running]

\* main, lines 165-169: matching_versions[0] panics on an empty list.
select_latest(version, matching_versions) ==
    IF Len(matching_versions) = 0
    THEN [latest |-> None, outcome |-> Outcome("Panic", "IndexOutOfBounds", "", None, None, "")]
    ELSE IF matching_versions[1] = version
    THEN [latest |-> Some(matching_versions[1]),
          outcome |-> Outcome("Err", "AlreadyLatest", "", None, None, "")]
    ELSE [latest |-> Some(matching_versions[1]), outcome |-> Running]

Select(p) ==
    /\ proc[p].pc = "select"
    /\ LET r == select_latest(proc[p].version[1], proc[p].matching_versions[1])
       IN  proc' = IF r.outcome # Running
                   THEN [proc EXCEPT ![p].pc = "done", ![p].outcome = r.outcome,
                                     ![p].latest_version = r.latest]
                   ELSE [proc EXCEPT ![p].pc = "download",
                                     ![p].latest_version = r.latest]
    /\ UNCHANGED <<registry, fs, transfers, writes, first, runs>>

(* ---------------------------- download_jar ----------------------------- *)

TargetFile(p) == FileName(ArtifactId, proc[p].latest_version[1])

DownloadFailed(cause) == Outcome("Err", "DownloadFailed", cause, None, None, "")

\* Variants of the cache test: never cached, and cached only when complete.
path_exists_never(file_state) == FALSE
path_exists_complete(file_state) == file_state = "jar"

\* full_path.exists(), line 100.
path_exists(file_state) == file_state # "absent"

\* What download_jar returns in Ok, lines 102 and 113.
returned_path(file_name) == FullPath(file_name)

\* Variant: the test and the creation are one step (create_new): the caller
\* that finds no file has made it.
DlCheckAtomic(p) ==
    /\ proc[p].pc = "download"
    /\ LET f == TargetFile(p)
       IN  IF path_exists(fs[f])
           THEN /\ proc' = [proc EXCEPT ![p].pc = "scan", ![p].cache = "hit",
                              ![p].seen = Some(fs[f]),
                              ![p].jar_file_name = Some(returned_path(f))]
                /\ first' = Returned(f, "ok", Some(returned_path(f)))
                /\ fs' = fs
           ELSE /\ proc' = [proc EXCEPT ![p].pc = "dl_get", ![p].cache = "miss",
                              ![p].seen = Some(fs[f])]
                /\ first' = first
                /\ fs' = [fs EXCEPT ![f] = "truncated"]
    /\ UNCHANGED <<registry, transfers, writes, runs>>

\* Lines 94-103 (the working directory is taken to exist, so current_dir()
\* succeeds): a file of the expected name, whatever it holds, ends the call
\* with its path.  seen is what was at the path when it was looked at.
DlCheck(p) ==
    /\ proc[p].pc = "download"
    /\ LET f == TargetFile(p)
       IN  IF path_exists(fs[f])
           THEN /\ proc' = [proc EXCEPT ![p].pc = "scan", ![p].cache = "hit",
                              ![p].seen = Some(fs[f]),
                              ![p].jar_file_name = Some(returned_path(f))]
                /\ first' = Returned(f, "ok", Some(returned_path(f)))
           ELSE /\ proc' = [proc EXCEPT ![p].pc = "dl_get", ![p].cache = "miss",
                              ![p].seen = Some(fs[f])]
                /\ first' = first
    /\ UNCHANGED <<registry, fs, transfers, writes, runs>>

\* Line 107: reqwest::blocking::get(url)? fails on a transport error only; a
\* response of any status is Ok.
get_result(transport_ok, status) ==
    IF transport_ok THEN Ok(status) ELSE Err("transport")

DlGet(p) ==
    /\ proc[p].pc = "dl_get"
    /\ LET f == TargetFile(p)
           u == Url(GroupId, ArtifactId, proc[p].latest_version[1])
       IN  /\ transfers' = [transfers EXCEPT ![f] = @ + 1]
           /\ \E transport_ok \in BOOLEAN, status \in HttpStatuses :
                LET r == get_result(transport_ok, status)
                IN  IF r.ok
                    THEN /\ proc' = [proc EXCEPT ![p].pc = "dl_create",
                                       ![p].gets = @ + 1, ![p].url = Some(u),
                                       ![p].response = r.val]
                         /\ first' = first
                    ELSE /\ proc' = [Finish(p, DownloadFailed(r.err[1]))
                                       EXCEPT ![p].gets = @ + 1, ![p].url = Some(u)]
                         /\ first' = Returned(f, "err", None)
    /\ UNCHANGED <<registry, fs, writes, runs>>

\* Line 108: File::create makes the file, or empties the one that is there.
DlCreate(p) ==
    /\ proc[p].pc = "dl_create"
    /\ LET f == TargetFile(p)
       IN  \E create_ok \in BOOLEAN :
             IF create_ok
             THEN /\ proc' = [proc EXCEPT ![p].pc = "dl_copy", ![p].creates = @ + 1]
                  /\ fs' = [fs EXCEPT ![f] = "truncated"]
                  /\ writes' = [writes EXCEPT ![f] = @ + 1]
                  /\ first' = first
             ELSE /\ proc' = Finish(p, DownloadFailed("create"))
                  /\ first' = Returned(f, "err", None)
                  /\ UNCHANGED <<fs, writes>>
    /\ UNCHANGED <<registry, transfers, runs>>

\* The bytes the response carries: the jar, or the server's error page.
Body(status) == IF StatusIsSuccess(status) THEN "jar" ELSE "errorpage"

\* Lines 109-113: the body is copied whatever the status; a failed copy leaves
\* the file as it is.
DlCopy(p) ==
    /\ proc[p].pc = "dl_copy"
    /\ LET f == TargetFile(p)
       IN  \E copy_ok \in BOOLEAN :
             IF copy_ok
             THEN /\ proc' = [proc EXCEPT ![p].pc = "scan",
                                ![p].jar_file_name = Some(returned_path(f))]
                  /\ fs' = [fs EXCEPT ![f] = Body(proc[p].response[1])]
                  /\ first' = Returned(f, "ok", Some(returned_path(f)))
             ELSE /\ proc' = Finish(p, DownloadFailed("copy"))
                  /\ first' = Returned(f, "err", None)
                  /\ fs' = fs
    /\ UNCHANGED <<registry, transfers, writes, runs>>

(* ------------------------ check_vulnerabilities ------------------------ *)

\* Variant: a process that ran at all counts as a success.
exit_success_always(status) == status >= 0

\* output.status.success(), line 134.
exit_success(status) == status = 0

check_vulnerabilities(jar_file_path, script_path, launch_ok, status, stderr) ==
    IF Parent(script_path) = None
    THEN Outcome("Err", "ScanNoParent", "", None, None, "")
    ELSE IF ~launch_ok
    THEN Outcome("Err", "ScanLaunchFailed", "spawn", None, None, "")
    ELSE IF exit_success(status)
    THEN Outcome("Ok", "Safe", "", None, None, "")
    ELSE Outcome("Err", "ScanFailed", "", None, Some(status), stderr)

\* What the call did: the script, its working directory, the --scan argument
\* and, when the process ran, how it ended.
ScanRecord(jar_file_path, script_path, launch_ok, status, stderr) ==
    LET ran == Parent(script_path) # None /\ launch_ok
    IN  [script |-> script_path, dir |-> Parent(script_path),
         target |-> jar_file_path, ran |-> ran,
         status |-> IF ran THEN Some(status) ELSE None,
         stderr |-> IF ran THEN stderr ELSE ""]

\* main, lines 174-179.
Scan(p) ==
    /\ proc[p].pc = "scan"
    /\ \E script_path \in ScriptPaths, launch_ok \in BOOLEAN,
          status \in ExitStatuses, stderr \in StderrTexts :
          LET jar == proc[p].jar_file_name[1]
              r == check_vulnerabilities(jar, script_path, launch_ok, status, stderr)
          IN  proc' = [proc EXCEPT
                         ![p].pc = "done",
                         ![p].scan = Some(ScanRecord(jar, script_path, launch_ok,
                                                     status, stderr)),
                         ![p].outcome =
                            IF r.result = "Ok"
                            THEN [r EXCEPT !.subject = proc[p].latest_version]
                            ELSE r]
    /\ UNCHANGED <<registry, fs, transfers, writes, first, runs>>

(* --------------------------- specifications ---------------------------- *)

Step(p) ==
    \/ Query(p)
    \/ ParseCurrent(p)
    \/ Filter(p)
    \/ Select(p)
    \/ DlCheck(p)
    \/ DlGet(p)
    \/ DlCreate(p)
    \/ DlCopy(p)
    \/ Scan(p)

\* Runs of the command one after the other in one working directory.
Next == \E p \in Procs : Start(p) \/ Step(p)

Spec == Init /\ [][Next]_vars

\* Two runs of the command at once in one working directory.
NextConcurrent == \E p \in Procs : StartConcurrent(p) \/ Step(p)

SpecConcurrent == Init /\ [][NextConcurrent]_vars

(* ------------------------- vocabulary of the claims -------------------- *)

HasDot(s) == \E i \in 1..Len(s) : s[i] = "."

\* The substring before the first '.' of a string that has one.
MajorOf(s) ==
    LET k == CHOOSE i \in 1..Len(s) : s[i] = "." /\ \A j \in 1..(i - 1) : s[j] # "."
    IN  SubSeq(s, 1, k - 1)

SameMajor(a, b) == HasDot(a) /\ HasDot(b) /\ MajorOf(a) = MajorOf(b)

AllDotted(V) == \A i \in 1..Len(V) : HasDot(V[i])

\* V[i] is the first element of V with the major version of C.
IsFirstMatch(i, C, V) ==
    /\ i \in 1..Len(V)
    /\ SameMajor(V[i], C)
    /\ \A j \in 1..(i - 1) : ~SameMajor(V[j], C)

Done(p) == proc[p].pc = "done"

\* The registry has been asked (answered or not).
Queried(p) == proc[p].pc \notin {"idle", "query"} /\ proc[p].outcome.kind # "Usage"

\* The registry has answered with a list of versions.
Answered(p) == proc[p].versions # None

\* download_jar has been called.
FetchStarted(p) ==
    \/ proc[p].pc \in {"dl_get", "dl_create", "dl_copy", "scan"}
    \/ proc[p].seen # None
    \/ proc[p].outcome.kind = "DownloadFailed"

\* check_vulnerabilities has been called.
ScanStarted(p) == proc[p].scan # None

NoFetchNoScan(p) ==
    /\ ~FetchStarted(p) /\ ~ScanStarted(p)
    /\ proc[p].gets = 0 /\ proc[p].creates = 0 /\ proc[p].jar_file_name = None

PathOf(version) == Cwd \o <<"/">> \o ArtifactId \o <<"-">> \o version \o <<".", "j", "a", "r">>

(* -------------------------------- claims ------------------------------- *)

\* C1: when the current version has a '.' and no element of the registry's
\* list has its major version (the empty list included), the run ends in a
\* reported selection error, not a fault, and neither fetch nor scan starts.
\* Stated for lists whose elements all have a '.': an element without one ends
\* the run in the filter (C8).
C1_NoMatchIsCheckedError ==
    \A p \in Procs :
        (/\ Done(p) /\ Answered(p)
         /\ HasDot(proc[p].version[1])
         /\ AllDotted(proc[p].versions[1])
         /\ \A i \in 1..Len(proc[p].versions[1]) :
               ~SameMajor(proc[p].versions[1][i], proc[p].version[1]))
        => /\ proc[p].outcome.result = "Err"
           /\ NoFetchNoScan(p)

\* C2 as stated: whenever the first element with the current major version
\* equals the current version, the run ends "already latest", with no fetch
\* and no scan.
C2_AlreadyLatestWhenever ==
    \A p \in Procs :
        (/\ Done(p) /\ Answered(p)
         /\ \E i \in 1..Len(proc[p].versions[1]) :
               /\ IsFirstMatch(i, proc[p].version[1], proc[p].versions[1])
               /\ proc[p].versions[1][i] = proc[p].version[1])
        => /\ proc[p].outcome.result = "Err"
           /\ proc[p].outcome.kind = "AlreadyLatest"
           /\ NoFetchNoScan(p)

\* C2, amended: when every element of the registry's list has a '.' and the
\* first element with the current major version equals the current version,
\* the run ends in the error-shaped "already latest" outcome (not the outcome
\* of an empty match), and no fetch and no scan is attempted.
C2_AlreadyLatest ==
    \A p \in Procs :
        (/\ Answered(p) /\ proc[p].pc \notin {"parse", "filter", "select"}
         /\ AllDotted(proc[p].versions[1])
         /\ \E i \in 1..Len(proc[p].versions[1]) :
               /\ IsFirstMatch(i, proc[p].version[1], proc[p].versions[1])
               /\ proc[p].versions[1][i] = proc[p].version[1])
        => /\ Done(p)
           /\ proc[p].outcome.result = "Err"
           /\ proc[p].outcome.kind = "AlreadyLatest"
           /\ proc[p].outcome.kind # "IndexOutOfBounds"
           /\ NoFetchNoScan(p)

\* The current version is the second element of the list, after an element of
\* another major version, and the run has ended "already latest".
C2_Witness ==
    \E p \in Procs :
        /\ Done(p) /\ Answered(p)
        /\ proc[p].outcome.kind = "AlreadyLatest"
        /\ IsFirstMatch(2, proc[p].version[1], proc[p].versions[1])

\* C3: the run exits zero exactly when every stage before the scan succeeded,
\* the selected version differs from the current one, and the scanner, run on
\* the path the fetch of the selected version returned, exited with status
\* zero; a non-zero exit gives a failing outcome carrying the exit status and
\* the error stream; the error stream has no part in pass or fail.
C3_SafeIffScanExitZero ==
    \A p \in Procs :
        Done(p) =>
          /\ proc[p].outcome.result = "Ok" <=>
                /\ Answered(p) /\ proc[p].major_version # None
                /\ proc[p].matching_versions # None
                /\ proc[p].latest_version # None
                /\ proc[p].latest_version # proc[p].version
                /\ proc[p].jar_file_name = Some(PathOf(proc[p].latest_version[1]))
                /\ ScanStarted(p)
                /\ proc[p].scan[1].target = proc[p].jar_file_name[1]
                /\ proc[p].scan[1].ran
                /\ proc[p].scan[1].status = Some(0)
          /\ (ScanStarted(p) /\ proc[p].scan[1].ran /\ proc[p].scan[1].status # Some(0))
                => /\ proc[p].outcome.result = "Err"
                   /\ proc[p].outcome.status = proc[p].scan[1].status
                   /\ proc[p].outcome.text = proc[p].scan[1].stderr

\* A scan that wrote to its error stream and exited zero: the run is safe.
C3_Witness ==
    \E p \in Procs :
        /\ Done(p) /\ proc[p].outcome.result = "Ok"
        /\ proc[p].scan[1].stderr = "CVE found"

\* C4: the registry is queried only after the current version has been parsed;
\* a current version without a '.' ends the run with the parse error and no
\* registry query.
C4_ParseBeforeQuery ==
    \A p \in Procs :
        /\ Queried(p) => HasDot(proc[p].version[1])
        /\ (Done(p) /\ proc[p].version # None /\ ~HasDot(proc[p].version[1]))
              => proc[p].outcome.kind = "NotSemver"

\* C5: on a cache miss, a response with a non-success status (like a transport
\* or write failure) makes the fetch fail: no path is returned and the scan
\* does not start.
C5_BadStatusFailsFetch ==
    \A p \in Procs :
        (/\ proc[p].cache = "miss"
         /\ \/ proc[p].response # None /\ ~StatusIsSuccess(proc[p].response[1])
            \/ proc[p].outcome.kind = "DownloadFailed")
        => /\ proc[p].jar_file_name = None
           /\ proc[p].pc # "scan"
           /\ ~ScanStarted(p)
           /\ Done(p) => proc[p].outcome.kind = "DownloadFailed"

\* C6: once the first fetch of a file name has succeeded (and the file stays),
\* one network transfer and one write have been made for it in total, and every
\* later fetch of that name returns the path the first returned, with no
\* transfer and no write of its own.
C6_FetchIdempotent ==
    \A f \in Files :
        (first[f] # None /\ first[f][1].result = "ok")
        => /\ transfers[f] = 1
           /\ writes[f] = 1
           /\ fs[f] # "absent"
           /\ \A p \in Procs :
                 (proc[p].latest_version # None /\ TargetFile(p) = f)
                 => /\ proc[p].jar_file_name # None
                          => proc[p].jar_file_name = first[f][1].path
                    /\ proc[p].cache = "hit"
                          => /\ proc[p].gets = 0 /\ proc[p].creates = 0
                             /\ proc[p].url = None
                             /\ proc[p].jar_file_name = first[f][1].path

\* A second run has fetched a file name whose first fetch succeeded.
C6_Witness ==
    \E p \in Procs :
        /\ runs >= 2
        /\ proc[p].cache = "hit"
        /\ proc[p].jar_file_name # None
        /\ first[TargetFile(p)][1].result = "ok"
        /\ transfers[TargetFile(p)] = 1

\* C7: when the current version and every element of the registry's list have
\* a '.', the version selected, fetched and scanned is the first element of the
\* list whose part before the first '.' is string-equal to that of the current
\* version; nothing is selected when there is none.
C7_FirstMatchSelected ==
    \A p \in Procs :
        (/\ Answered(p)
         /\ HasDot(proc[p].version[1])
         /\ AllDotted(proc[p].versions[1]))
        => LET C == proc[p].version[1]
               V == proc[p].versions[1]
           IN  /\ proc[p].latest_version # None
                    => \E i \in 1..Len(V) :
                          IsFirstMatch(i, C, V) /\ proc[p].latest_version = Some(V[i])
               /\ (proc[p].pc \notin {"parse", "filter", "select"}
                     /\ \E i \in 1..Len(V) : IsFirstMatch(i, C, V))
                    => proc[p].latest_version # None
               /\ (FetchStarted(p) \/ ScanStarted(p)) => proc[p].latest_version # None
               /\ proc[p].url # None
                    => proc[p].url = Some(Url(GroupId, ArtifactId, proc[p].latest_version[1]))
               /\ proc[p].jar_file_name # None
                    => proc[p].jar_file_name = Some(PathOf(proc[p].latest_version[1]))
               /\ ScanStarted(p)
                    => proc[p].scan[1].target = PathOf(proc[p].latest_version[1])

\* The list starts with "01.0", the current version is "1.0", and the second
\* element, of major version "1", has been fetched and scanned.
C7_Witness ==
    \E p \in Procs :
        /\ ScanStarted(p) /\ proc[p].gets = 1
        /\ proc[p].version = Some(<<"1", ".", "0">>)
        /\ Len(proc[p].versions[1]) = 2
        /\ proc[p].versions[1][1] = <<"0", "1", ".", "0">>
        /\ proc[p].latest_version = Some(proc[p].versions[1][2])

C9_TruncatedFileIsCached ==
    \A p \in Procs :
        /\ (Done(p) /\ proc[p].outcome.kind = "DownloadFailed"
                    /\ proc[p].outcome.cause = "copy")
              => fs[TargetFile(p)] = "truncated"
        /\ proc[p].seen = Some("truncated")
              => /\ proc[p].cache = "hit"
                 /\ proc[p].gets = 0 /\ proc[p].creates = 0
                 /\ proc[p].jar_file_name = Some(PathOf(proc[p].latest_version[1]))
                 /\ fs[TargetFile(p)] = "truncated"
                 /\ proc[p].pc \in {"scan", "done"}
                 /\ Done(p) => /\ ScanStarted(p)
                               /\ proc[p].scan[1].target = PathOf(proc[p].latest_version[1])

\* The second run has scanned the file the first run left truncated.
C9_Witness ==
    \E p \in Procs :
        /\ runs >= 2 /\ Done(p)
        /\ proc[p].seen = Some("truncated")
        /\ ScanStarted(p) /\ proc[p].scan[1].ran
        /\ first[TargetFile(p)][1].result = "err"
        /\ transfers[TargetFile(p)] = 1

\* C10: the test for the file and its creation are separate steps and no lock
\* is held between them: a process that found no file and has not created it
\* yet has left no trace in the directory (the file is there only if another
\* process created it), and its creation empties whatever is there.  So two
\* runs at once can both find no file, both transfer and both write it.
C10_CheckThenCreateNotAtomic ==
    \A p \in Procs :
        /\ (proc[p].pc \in {"dl_get", "dl_create"} /\ proc[p].seen = Some("absent"))
              => \/ fs[TargetFile(p)] = "absent"
                 \/ \E q \in Procs \ {p} :
                       /\ proc[q].creates > 0
                       /\ TargetFile(q) = TargetFile(p)
        /\ proc[p].pc = "dl_copy"
              => /\ proc[p].creates = 1
                 /\ writes[TargetFile(p)] >= 1
                 /\ fs[TargetFile(p)] # "absent"

\* Both runs found the file absent, both made a transfer and both wrote it.
C10_Witness ==
    \E p \in Procs, q \in Procs :
        /\ p # q
        /\ proc[p].latest_version # None /\ proc[q].latest_version # None
        /\ TargetFile(p) = TargetFile(q)
        /\ proc[p].seen = Some("absent") /\ proc[q].seen = Some("absent")
        /\ proc[p].gets = 1 /\ proc[q].gets = 1
        /\ proc[p].creates = 1 /\ proc[q].creates = 1
        /\ transfers[TargetFile(p)] = 2
        /\ writes[TargetFile(p)] = 2

====
